---- MODULE Spec2Model ----
(***************************************************************************)
(* Model of hive_metastore.thrift: the quote/bracket aware splitter, the   *)
(* identifier unquoter, the type-descriptor parser, the schema assembler   *)
(* (arrow.py), the namespace qualifier and the table and constraint        *)
(* operations of ThriftHiveMetastore (__init__.py).                        *)
(*                                                                         *)
(* A Python str is a sequence of one-character strings.  None is the       *)
(* one-element sequence <<"<None>">>, which no str can equal.              *)
(***************************************************************************)
EXTENDS Integers, Sequences, FiniteSets, TLC

VARIABLES
    string,      \* aware_split: the string argument
    delimiter,   \* aware_split: the delimiter argument
    k,           \* the max_split value the caller passed
    max_split,   \* aware_split: the local max_split (decremented by the loop)
    parens,      \* aware_split: bracket depth
    quotes,      \* aware_split: inside-quotes flag
    i,           \* aware_split: start of the current segment
    j,           \* aware_split: index of the character being scanned
    gen,         \* position of the generator object
    out,         \* the segments the generator has yielded so far
    op,          \* the pure function being applied ("none" before the call)
    arg,         \* its arguments
    ret,         \* what the call returned or raised
    rpc          \* the calls made on self._client, in order

splitVars == <<string, delimiter, k, max_split, parens, quotes, i, j, gen, out>>
callVars == <<op, arg, ret>>
vars == <<string, delimiter, k, max_split, parens, quotes, i, j, gen, out, op, arg, ret, rpc>>

--------------------------------------------------------------------------
(* Bounds *)

MaxLen == 4          \* longest string handed to aware_split
MaxSplit == 2        \* largest max_split handed to aware_split
MaxUnquoteLen == 7   \* longest string handed to unquote
MaxDepth == 2        \* deepest nesting of the descriptors handed to parse_dtype
MaxCols == 2         \* most data columns, and most partition columns, of a table
MaxNameLen == 2      \* longest catalog or database name
MaxConstraints == 1  \* longest constraint list handed to a table operation

--------------------------------------------------------------------------
(* Python values *)

None == <<"<None>">>

Raise(exc) == [kind |-> "raise", exc |-> exc]

IsRaise(v) == v.kind = "raise"

Min(a, b) == IF a < b THEN a ELSE b

Max(a, b) == IF a > b THEN a ELSE b

\* s[a:b] with Python's 0-based, negative-aware, clamped indices
PySlice(s, a, b) ==
    LET n == Len(s)
        lo == IF a < 0 THEN Max(a + n, 0) ELSE Min(a, n)
        hi == IF b < 0 THEN Max(b + n, 0) ELSE Min(b, n)
    IN  IF lo >= hi THEN <<>> ELSE SubSeq(s, lo + 1, hi)

\* s[a:]
PyTail(s, a) == PySlice(s, a, Len(s))

--------------------------------------------------------------------------
(* aware_split, arrow.py:56-102: the defaults of its keyword parameters *)

quote == "\""

escaped_quote == <<"\\", "\"">>

open_bracket == "("

close_bracket == ")"

\* The generator's frame as one record
Frame == [string |-> string, delimiter |-> delimiter, max_split |-> max_split,
          parens |-> parens, quotes |-> quotes, i |-> i, j |-> j,
          gen |-> gen, out |-> out]

\* Calling a generator function binds the arguments and returns the
\* generator object; none of the body has run (arrow.py:56-64)
NewGenerator(s, d, m) ==
    [string |-> s, delimiter |-> d, max_split |-> m,
     parens |-> 0, quotes |-> FALSE, i |-> 0, j |-> 0,
     gen |-> "created", out |-> <<>>]

\* the quote test of arrow.py:98-101
QuoteFlag(f) ==
    IF f.quotes /\ PySlice(f.string, f.j - Len(escaped_quote) + 1, f.j + 1) # escaped_quote
    THEN FALSE
    ELSE IF ~f.quotes THEN TRUE ELSE f.quotes

\* complete, arrow.py:85
CompleteIgnoringQuotes(f) == f.parens = 0

Complete(f) == f.parens = 0 /\ ~f.quotes

\* the budget bookkeeping of arrow.py:87-88
BudgetNeverDecremented(f) == f.max_split

Budget(f) == IF f.max_split # -1 THEN f.max_split - 1 ELSE f.max_split

\* First resumption: arrow.py:76-83, up to the first yield or the loop
GenStart(f) ==
    IF f.max_split < -1
    THEN [f EXCEPT !.gen = "raised"]
    ELSE IF f.max_split = 0
    THEN [f EXCEPT !.out = Append(f.out, f.string), !.gen = "suspended82"]
    ELSE IF f.string = None
    THEN [f EXCEPT !.gen = "raisedTypeError"]
    ELSE [f EXCEPT !.gen = "loop"]

\* One iteration of the for loop, arrow.py:84-101, on character string[j]
LoopBody(f) ==
    LET character == f.string[f.j + 1]
    IN  IF Complete(f) /\ character = f.delimiter
        THEN LET m == Budget(f)
             IN  [f EXCEPT !.max_split = m,
                           !.out = Append(f.out, PySlice(f.string, f.i, f.j)),
                           !.i = f.j + 1,
                           !.j = f.j + 1,
                           !.gen = IF m = 0 THEN "final" ELSE "loop"]
        ELSE IF character = open_bracket
        THEN [f EXCEPT !.parens = f.parens + 1, !.j = f.j + 1]
        ELSE IF character = close_bracket
        THEN [f EXCEPT !.parens = f.parens - 1, !.j = f.j + 1]
        ELSE IF character = quote
        THEN [f EXCEPT !.quotes = QuoteFlag(f), !.j = f.j + 1]
        ELSE [f EXCEPT !.j = f.j + 1]

\* The loop is exhausted: fall through to arrow.py:102
LoopEnd(f) == [f EXCEPT !.gen = "final"]

\* arrow.py:102
GenFinal(f) == [f EXCEPT !.out = Append(f.out, PyTail(f.string, f.i)),
                         !.gen = "suspended102"]

\* Resuming after the last yield returns (arrow.py:83, or the end of the body)
GenReturn(f) == [f EXCEPT !.gen = "done"]

GenRunning(f) == f.gen \in {"created", "loop", "final", "suspended82", "suspended102"}

\* One step of the generator body
GenStep(f) ==
    CASE f.gen = "created" -> GenStart(f)
      [] f.gen = "loop" /\ f.j < Len(f.string) -> LoopBody(f)
      [] f.gen = "loop" /\ f.j >= Len(f.string) -> LoopEnd(f)
      [] f.gen = "final" -> GenFinal(f)
      [] f.gen \in {"suspended82", "suspended102"} -> GenReturn(f)
      [] OTHER -> f

RECURSIVE Drain(_)
Drain(f) == IF GenRunning(f) THEN Drain(GenStep(f)) ELSE f

\* list(aware_split(s, d, m)): the segments, or the exception
aware_split(s, d, m) ==
    LET f == Drain(NewGenerator(s, d, m))
    IN  IF f.gen = "done" THEN [kind |-> "list", items |-> f.out]
        ELSE IF f.gen = "raised" THEN Raise("ValueError")
        ELSE Raise("TypeError")

--------------------------------------------------------------------------
(* unquote, arrow.py:46-53 *)

escape == "\\"

\* str.replace(old, new): every non-overlapping occurrence, left to right
RECURSIVE PyReplace(_, _, _)
PyReplace(s, old, new) ==
    IF Len(s) < Len(old) THEN s
    ELSE IF SubSeq(s, 1, Len(old)) = old
    THEN new \o PyReplace(SubSeq(s, Len(old) + 1, Len(s)), old, new)
    ELSE <<s[1]>> \o PyReplace(Tail(s), old, new)

\* str.startswith / str.endswith with a one-character argument
StartsWith(s, c) == Len(s) >= 1 /\ s[1] = c

EndsWith(s, c) == Len(s) >= 1 /\ s[Len(s)] = c

unquoteEscapeFirst(s) ==
    IF StartsWith(s, quote) /\ EndsWith(s, quote)
    THEN PyReplace(PyReplace(PySlice(s, 1, -1), <<escape, escape>>, <<escape>>),
                   <<escape, quote>>, <<quote>>)
    ELSE s

unquote(s) ==
    IF StartsWith(s, quote) /\ EndsWith(s, quote)
    THEN PyReplace(PyReplace(PySlice(s, 1, -1), <<escape, quote>>, <<quote>>),
                   <<escape, escape>>, <<escape>>)
    ELSE s

--------------------------------------------------------------------------
(* parse_dtype, arrow.py:105-176 *)

Lowercase == <<"a", "b", "c", "d", "e", "f", "g", "h", "i", "j", "k", "l", "m", "n", "o", "p", "q", "r", "s", "t", "u", "v", "w", "x", "y", "z">>

Uppercase == <<"A", "B", "C", "D", "E", "F", "G", "H", "I", "J", "K", "L", "M", "N", "O", "P", "Q", "R", "S", "T", "U", "V", "W", "X", "Y", "Z">>

Digits == {"0", "1", "2", "3", "4", "5", "6", "7", "8", "9"}

\* str.upper(), one character
UpperChar(c) ==
    IF \E n \in 1..Len(Lowercase) : Lowercase[n] = c
    THEN Uppercase[CHOOSE n \in 1..Len(Lowercase) : Lowercase[n] = c]
    ELSE c

upper(s) == [n \in 1..Len(s) |-> UpperChar(s[n])]

\* \s and \w of the re module
IsSpace(c) == c = " "

IsWord(c) ==
    \/ \E n \in 1..Len(Lowercase) : Lowercase[n] = c \/ Uppercase[n] = c
    \/ c \in Digits
    \/ c = "_"

\* str.strip()
RECURSIVE LStrip(_)
LStrip(s) == IF s # <<>> /\ IsSpace(s[1]) THEN LStrip(Tail(s)) ELSE s

RECURSIVE RStrip(_)
RStrip(s) ==
    IF s # <<>> /\ IsSpace(s[Len(s)]) THEN RStrip(SubSeq(s, 1, Len(s) - 1)) ELSE s

strip(s) == RStrip(LStrip(s))

\* the length of the longest prefix of s from position p on whose characters
\* all satisfy the class: greedy \w+ and \s*
RECURSIVE WordRun(_, _)
WordRun(s, p) == IF p <= Len(s) /\ IsWord(s[p]) THEN 1 + WordRun(s, p + 1) ELSE 0

RECURSIVE SpaceRun(_, _)
SpaceRun(s, p) == IF p <= Len(s) /\ IsSpace(s[p]) THEN 1 + SpaceRun(s, p + 1) ELSE 0

\* re.match(r"^(?P<type>\w+)\s*(?:<(?P<options>.*)>)?", dtype), arrow.py:112:
\* the keyword, then the text between the "<" that follows it and the LAST
\* ">" of the string; the group is optional, so options is None without them
ReMatch(dtype) ==
    LET w == WordRun(dtype, 1)
        lt == w + SpaceRun(dtype, w + 1) + 1
        closers == {p \in (lt + 1)..Len(dtype) : dtype[p] = ">"}
        last == CHOOSE p \in closers : \A q \in closers : q <= p
    IN  IF w = 0 THEN [matched |-> FALSE]
        ELSE [matched |-> TRUE,
              type |-> SubSeq(dtype, 1, w),
              options |-> IF lt <= Len(dtype) /\ dtype[lt] = "<" /\ closers # {}
                          THEN SubSeq(dtype, lt + 1, last - 1)
                          ELSE None]

\* pa.decimal128(precision, scale), arrow.py:155: the arguments must be ints
PyInt(n) == [t |-> "int", v |-> n]

PyStr(x) == [t |-> "str", v |-> x]

decimal128(precision, scale) ==
    IF precision.t = "int" /\ scale.t = "int"
    THEN [kind |-> "decimal128", precision |-> precision.v, scale |-> scale.v]
    ELSE Raise("TypeError")

Scalar(name) == [kind |-> name]

list_(item_type) == [kind |-> "list", item |-> item_type]

map_(key_type, value_type) == [kind |-> "map", key |-> key_type, value |-> value_type]

field(name, type) == [name |-> name, type |-> type]

struct(fields) == [kind |-> "struct", fields |-> fields]

RECURSIVE parse_dtype(_)
RECURSIVE StructFields(_, _)

\* the body of the for loop of arrow.py:130-134 over the entries still to
\* come, fields being the list built so far
StructFields(entries, fields) ==
    IF entries = <<>> THEN struct(fields)
    ELSE LET parts == aware_split(strip(entries[1]), " ", 1)
         IN  IF IsRaise(parts) THEN parts
             ELSE IF Len(parts.items) # 2 THEN Raise("ValueError")
             ELSE LET attr_name == unquote(parts.items[1])
                      attr_type == parse_dtype(parts.items[2])
                  IN  IF IsRaise(attr_type) THEN attr_type
                      ELSE StructFields(Tail(entries),
                                        Append(fields, field(attr_name, attr_type)))

parse_dtype(dtype0) ==
    IF dtype0 = None THEN Raise("AttributeError")
    ELSE
    LET dtype == upper(strip(dtype0))
        match == ReMatch(dtype)
    IN  IF ~match.matched THEN Scalar("null")
        ELSE
        LET type_name == match.type
            type_opts == match.options
        IN  IF type_name = <<"A", "R", "R", "A", "Y">>
            THEN LET item_type == parse_dtype(type_opts)
                 IN  IF IsRaise(item_type) THEN item_type ELSE list_(item_type)
            ELSE IF type_name = <<"M", "A", "P">>
            THEN LET parts == aware_split(type_opts, ",", -1)
                 IN  IF IsRaise(parts) THEN parts
                     ELSE IF Len(parts.items) # 2 THEN Raise("ValueError")
                     ELSE LET key_type == parse_dtype(parts.items[1])
                              value_type == parse_dtype(parts.items[2])
                          IN  IF IsRaise(key_type) THEN key_type
                              ELSE IF IsRaise(value_type) THEN value_type
                              ELSE map_(key_type, value_type)
            ELSE IF type_name = <<"S", "T", "R", "U", "C", "T">>
            THEN LET entries == aware_split(type_opts, ",", -1)
                 IN  IF IsRaise(entries) THEN entries
                     ELSE StructFields(entries.items, <<>>)
            ELSE IF type_name = <<"D", "A", "T", "E">> THEN Scalar("date32")
            ELSE IF type_name = <<"T", "I", "M", "E", "S", "T", "A", "M", "P">> THEN Scalar("timestamp[us]")
            ELSE IF type_name = <<"I", "N", "T", "E", "R", "V", "A", "L">> THEN Scalar("duration[s]")
            ELSE IF type_name \in {<<"S", "T", "R", "I", "N", "G">>, <<"V", "A", "R", "C", "H", "A", "R">>, <<"C", "H", "A", "R">>}
            THEN Scalar("string")
            ELSE IF type_name = <<"B", "I", "N", "A", "R", "Y">> THEN Scalar("binary")
            ELSE IF type_name \in {<<"D", "E", "C", "I", "M", "A", "L">>, <<"N", "U", "M", "E", "R", "I", "C">>}
            THEN IF type_opts # None /\ type_opts # <<>>
                 THEN LET itr == aware_split(type_opts, ",", -1).items
                          precision == PyStr(itr[1])
                          scale == IF Len(itr) >= 2 THEN PyStr(itr[2]) ELSE PyInt(0)
                      IN  decimal128(precision, scale)
                 ELSE decimal128(PyInt(10), PyInt(0))
            ELSE IF type_name = <<"F", "L", "O", "A", "T">> THEN Scalar("float32")
            ELSE IF type_name \in {<<"D", "O", "U", "B", "L", "E">>, <<"D", "O", "U", "B", "L", "E", " ", "P", "R", "E", "C", "I", "S", "I", "O", "N">>}
            THEN Scalar("float64")
            ELSE IF type_name = <<"T", "I", "N", "Y", "I", "N", "T">> THEN Scalar("int8")
            ELSE IF type_name = <<"S", "M", "A", "L", "L", "I", "N", "T">> THEN Scalar("int16")
            ELSE IF type_name \in {<<"I", "N", "T">>, <<"I", "N", "T", "E", "G", "E", "R">>} THEN Scalar("int32")
            ELSE IF type_name = <<"B", "I", "G", "I", "N", "T">> THEN Scalar("int64")
            ELSE IF type_name = <<"B", "O", "O", "L", "E", "A", "N">> THEN Scalar("bool")
            ELSE Scalar("null")

--------------------------------------------------------------------------
(* convert_fields and convert_schema, arrow.py:188-197 *)

\* a FieldSchema of the metastore: name, type and comment
FieldSchema(name, type, comment) == [name |-> name, type |-> type, comment |-> comment]

\* pa.field(name, dtype, nullable, metadata)
pa_field(name, dtype, nullable, metadata) ==
    [kind |-> "field", name |-> name, type |-> dtype,
     nullable |-> nullable, metadata |-> metadata]

\* the exception of parse_dtype leaves convert_fields; otherwise
\* pa.field(field.name, dtype, True, metadata), arrow.py:190-191
MakeField(f, dtype) ==
    IF IsRaise(dtype) THEN dtype
    ELSE pa_field(f.name, dtype, TRUE,
                  IF f.comment # None /\ f.comment # <<>>
                  THEN [comment |-> f.comment]
                  ELSE None)

convert_fields(f) == MakeField(f, parse_dtype(f.type))

\* one more element of a list comprehension: the first exception wins
Cons(first, rest) ==
    IF IsRaise(first) THEN first
    ELSE IF IsRaise(rest) THEN rest
    ELSE [kind |-> "list", items |-> <<first>> \o rest.items]

\* [convert_fields(c) for c in cols]: the list, or the first exception
RECURSIVE ConvertAll(_)
ConvertAll(cols) ==
    IF cols = <<>> THEN [kind |-> "list", items |-> <<>>]
    ELSE Cons(convert_fields(cols[1]), ConvertAll(Tail(cols)))

\* pa.schema(fields + part_fields), arrow.py:197
pa_schema(fields, part_fields) ==
    IF IsRaise(fields) THEN fields
    ELSE IF IsRaise(part_fields) THEN part_fields
    ELSE [kind |-> "schema", fields |-> fields.items \o part_fields.items]

convert_schema(cols, part_cols) == pa_schema(ConvertAll(cols), ConvertAll(part_cols))

--------------------------------------------------------------------------
(* The namespace qualifier, __init__.py:42-53 and 97-116 *)

DEFAULT_CATALOG_NAME == <<"h", "i", "v", "e">>

CATALOG_DB_THRIFT_NAME_MARKER == "@"

CATALOG_DB_SEPARATOR == "#"

DB_EMPTY_MARKER == "!"

default_catalog == DEFAULT_CATALOG_NAME

prepend_catalog_to_database_always_marked(database_name, catalog_name) ==
    LET catalog == IF catalog_name = None THEN default_catalog ELSE catalog_name
        buf == <<CATALOG_DB_THRIFT_NAME_MARKER>> \o catalog \o <<CATALOG_DB_SEPARATOR>>
    IN  IF database_name # None /\ Len(database_name) > 0
        THEN buf \o database_name
        ELSE buf \o <<DB_EMPTY_MARKER>>

prepend_catalog_to_database_no_separator(database_name, catalog_name) ==
    LET catalog == IF catalog_name = None THEN default_catalog ELSE catalog_name
        buf == <<CATALOG_DB_THRIFT_NAME_MARKER>> \o catalog
    IN  IF database_name # None
        THEN buf \o (IF Len(database_name) > 0 THEN database_name ELSE <<DB_EMPTY_MARKER>>)
        ELSE buf

prepend_catalog_to_database(database_name, catalog_name) ==
    LET catalog == IF catalog_name = None THEN default_catalog ELSE catalog_name
        buf == <<CATALOG_DB_THRIFT_NAME_MARKER>> \o catalog \o <<CATALOG_DB_SEPARATOR>>
    IN  IF database_name # None
        THEN buf \o (IF Len(database_name) > 0 THEN database_name ELSE <<DB_EMPTY_MARKER>>)
        ELSE buf

--------------------------------------------------------------------------
(* The table and constraint operations of ThriftHiveMetastore,             *)
(* __init__.py:101-104 and 180-427                                         *)

\* None where the other values are records
PyNone == [kind |-> "None"]

PyList(items) == [kind |-> "list", items |-> items]

PyDict(items) == [kind |-> "dict", items |-> items]

\* EnvironmentContext(properties)
EnvironmentContext(properties) == [kind |-> "EnvironmentContext", properties |-> properties]

\* one call on self._client: the method and its positional arguments
Rpc(method, args) == [method |-> method, args |-> args]

\* what the metastore answered is handed back
Returned == [kind |-> "return"]

\* _set_catalog, __init__.py:101-104
_set_catalog(catalog_name, o) ==
    IF o.catName = None THEN [o EXCEPT !.catName = catalog_name] ELSE o

\* `map(lambda c: self._set_catalog(default_catalog, c), constraints)` as a
\* statement: map() builds an iterator that applies the lambda when it is
\* consumed, and the statement drops the iterator, so no element is visited
\* and the list is what it was
MapStatement(catalog_name, constraints) == constraints

\* the six guarded map statements of create_table, __init__.py:195-211
GuardedMapStatement(catalog_name, constraints) ==
    IF constraints # PyNone THEN MapStatement(catalog_name, constraints) ELSE constraints

\* create_table, __init__.py:180-218: the call it makes
create_table(a) ==
    IF a.table.catName = None
    THEN Rpc("create_table_with_constraints",
             << [a.table EXCEPT !.catName = default_catalog],
                GuardedMapStatement(default_catalog, a.primary_keys),
                GuardedMapStatement(default_catalog, a.foreign_keys),
                GuardedMapStatement(default_catalog, a.unique_constraints),
                GuardedMapStatement(default_catalog, a.not_null_constraints),
                GuardedMapStatement(default_catalog, a.default_constraints),
                GuardedMapStatement(default_catalog, a.check_constraints) >>)
    ELSE Rpc("create_table_with_constraints",
             << a.table, a.primary_keys, a.foreign_keys, a.unique_constraints,
                a.not_null_constraints, a.default_constraints, a.check_constraints >>)

\* add_primary_key and its five siblings, __init__.py:284-287, 299-302,
\* 318-321, 333-336, 348-351, 363-366: the call each makes
add_constraints(method, request, constraints) ==
    Rpc(method, << [kind |-> request,
                    constraints |-> MapStatement(default_catalog, constraints)] >>)

\* add_schema_version, __init__.py:405-407: _set_catalog is called directly
add_schema_version(schema_version) ==
    Rpc("add_schema_version",
        << [schema_version EXCEPT !.schema = _set_catalog(default_catalog, @)] >>)

\* alter_table, __init__.py:220-232; fresh is the properties attribute of
\* a newly built EnvironmentContext()
alter_table_context(cascade, env_context, fresh) ==
    IF cascade /\ env_context = PyNone THEN EnvironmentContext(fresh) ELSE env_context

alter_table(table_name, new_table, database_name, catalog_name, cascade, ctx) ==
    IF cascade /\ ctx.properties = PyNone
    THEN [ret |-> Raise("TypeError"), rpc |-> <<>>]
    ELSE [ret |-> Returned,
          rpc |-> << Rpc("alter_table_with_environment_context",
                         << prepend_catalog_to_database(database_name, catalog_name),
                            table_name,
                            new_table,
                            IF cascade
                            THEN EnvironmentContext(
                                     PyDict(ctx.properties.items \cup {<<"CASCADE", "True">>}))
                            ELSE ctx >>) >>]

\* get_table, __init__.py:259-261
get_table(table_name, database_name, catalog_name) ==
    Rpc("get_table",
        <<prepend_catalog_to_database(database_name, catalog_name), table_name>>)

\* drop_table, __init__.py:234-252; found is the metastore's answer to the
\* get_table call: the table, or NoSuchObjectException
drop_table(table_name, database_name, catalog_name, delete_data, ignore_unknown_table, if_purge, found) ==
    IF ~found
    THEN [ret |-> IF ignore_unknown_table THEN Returned
                  ELSE Raise("NoSuchObjectException"),
          rpc |-> <<get_table(table_name, database_name, catalog_name)>>]
    ELSE [ret |-> Returned,
          rpc |-> << get_table(table_name, database_name, catalog_name),
                     Rpc("drop_table_with_environment_context",
                         << table_name,
                            prepend_catalog_to_database(database_name, catalog_name),
                            delete_data,
                            IF if_purge
                            THEN EnvironmentContext(PyDict({<<"ifPurge", "TRUE">>}))
                            ELSE PyNone >>) >>]

\* truncate_table, __init__.py:254-257
truncate_table(partition_names, table_name, database_name, catalog_name) ==
    Rpc("truncate_table",
        << prepend_catalog_to_database(database_name, catalog_name),
           table_name, partition_names >>)

\* str(table_type) of a TableType member, __init__.py:60-64 and 278
TableTypeStr(table_type) == <<"TableType.">> \o table_type

\* list_tables, __init__.py:269-280
list_tables(database_name, catalog_name, table_pattern, table_type) ==
    IF table_type # None
    THEN Rpc("get_tables_by_type",
             << prepend_catalog_to_database(database_name, catalog_name),
                table_pattern, TableTypeStr(table_type) >>)
    ELSE Rpc("get_tables",
             << prepend_catalog_to_database(database_name, catalog_name),
                table_pattern >>)

\* get_fields and get_schema, __init__.py:397-403
get_fields(table_name, database_name, catalog_name) ==
    Rpc("get_fields",
        <<prepend_catalog_to_database(database_name, catalog_name), table_name>>)

get_schema(table_name, database_name, catalog_name) ==
    Rpc("get_schema",
        <<prepend_catalog_to_database(database_name, catalog_name), table_name>>)

--------------------------------------------------------------------------
(* The splitter as a state machine: one generator object, stepped by its   *)
(* consumer.                                                               *)

SplitAlphabet == {"a", ",", " ", "(", ")", "\"", "\\"}

RECURSIVE StringsUpTo(_, _)
StringsUpTo(A, n) ==
    IF n = 0 THEN {<<>>}
    ELSE LET S == StringsUpTo(A, n - 1)
         IN  S \cup {Append(s, c) : s \in {t \in S : Len(t) = n - 1}, c \in A}

CallIdle == op = "none" /\ arg = <<>> /\ ret = <<>>

\* nothing has been sent to the metastore
NoRpc == rpc = <<>>

SplitIdle ==
    /\ string = <<>> /\ delimiter = "," /\ k = -1 /\ max_split = -1
    /\ parens = 0 /\ quotes = FALSE /\ i = 0 /\ j = 0
    /\ gen = "none" /\ out = <<>>

\* The caller has chosen the arguments; aware_split has not been called
InitSplit ==
    /\ string \in StringsUpTo(SplitAlphabet, MaxLen)
    /\ delimiter \in {",", " "}
    /\ k \in -2..MaxSplit
    /\ max_split = k
    /\ parens = 0 /\ quotes = FALSE /\ i = 0 /\ j = 0
    /\ gen = "none" /\ out = <<>>
    /\ CallIdle
    /\ NoRpc

SetFrame(f) ==
    /\ max_split' = f.max_split
    /\ parens' = f.parens
    /\ quotes' = f.quotes
    /\ i' = f.i
    /\ j' = f.j
    /\ gen' = f.gen
    /\ out' = f.out
    /\ UNCHANGED <<string, delimiter, k, op, arg, ret, rpc>>

\* it = aware_split(string, delimiter, max_split=k)
Call ==
    /\ gen = "none"
    /\ SetFrame(NewGenerator(string, delimiter, k))

\* the first next(it)
Start ==
    /\ gen = "created"
    /\ SetFrame(GenStart(Frame))

\* one pass through the loop body
Scan ==
    /\ gen = "loop"
    /\ j < Len(string)
    /\ SetFrame(LoopBody(Frame))

\* enumerate(string) is exhausted
EndOfString ==
    /\ gen = "loop"
    /\ j >= Len(string)
    /\ SetFrame(LoopEnd(Frame))

\* yield string[i:]
Final ==
    /\ gen = "final"
    /\ SetFrame(GenFinal(Frame))

\* the next(it) after the last yield: StopIteration
Return ==
    /\ gen \in {"suspended82", "suspended102"}
    /\ SetFrame(GenReturn(Frame))

NextSplit == Call \/ Start \/ Scan \/ EndOfString \/ Final \/ Return

SpecSplit == InitSplit /\ [][NextSplit]_vars

--------------------------------------------------------------------------
(* Claims about aware_split *)

\* opens minus closes among the first p characters of s
RECURSIVE DepthAt(_, _)
DepthAt(s, p) ==
    IF p = 0 THEN 0
    ELSE DepthAt(s, p - 1)
         + (IF s[p] = open_bracket THEN 1 ELSE IF s[p] = close_bracket THEN -1 ELSE 0)

\* whether the first p characters of s leave a quoted region open, an
\* escaped quote inside the region not closing it
RECURSIVE InQuotesAt(_, _)
InQuotesAt(s, p) ==
    IF p = 0 THEN FALSE
    ELSE LET before == InQuotesAt(s, p - 1)
         IN  IF s[p] # quote THEN before
             ELSE IF before /\ p >= 2 /\ s[p - 1] = "\\" THEN TRUE
             ELSE ~before

RECURSIVE Join(_, _)
Join(segs, d) ==
    IF Len(segs) = 0 THEN <<>>
    ELSE IF Len(segs) = 1 THEN segs[1]
    ELSE segs[1] \o <<d>> \o Join(Tail(segs), d)

Contains(s, c) == \E p \in 1..Len(s) : s[p] = c

\* C5: a call with max_split < -1 fails in the call itself: no generator
\* object is ever handed back for it, the only outcome is the ValueError.
C5_RaisedByTheCall == (k < -1 /\ gen # "none") => gen = "raised"

\* C6: with unlimited splits, scanning a character ends a segment if and only
\* if the character is the delimiter, the bracket depth there is zero and the
\* character is not inside a quoted region; the segment ended is string[i:j].
C6_SplitIffTopLevel ==
    [][(gen = "loop" /\ j < Len(string) /\ k = -1) =>
         /\ parens = DepthAt(string, j)
         /\ quotes = InQuotesAt(string, j)
         /\ (out' # out) <=> (/\ string[j + 1] = delimiter
                              /\ DepthAt(string, j) = 0
                              /\ ~InQuotesAt(string, j))
         /\ (out' # out) => out' = Append(out, PySlice(string, i, j))]_vars

\* an unlimited split that has split once, after keeping a delimiter that
\* stands inside a quoted region
C6_Witness ==
    /\ gen = "done" /\ k = -1 /\ delimiter = ","
    /\ Len(out) = 2
    /\ Contains(out[1], ",")
    /\ Contains(out[1], quote)

\* C7: with max_split = k >= 0 the result is the unlimited result when that
\* has at most k+1 segments, and otherwise its first k segments followed by
\* the rest of the string; the last segment is always there, and the
\* segments joined by the delimiter give the string back.
C7_AtMostKSplits ==
    (gen = "done" /\ k >= 0) =>
        LET U == aware_split(string, delimiter, -1).items
            head == SubSeq(U, 1, k)
            rest == IF k = 0 THEN 0 ELSE Len(Join(head, delimiter)) + 1
        IN  /\ Len(out) >= 1
            /\ Join(out, delimiter) = string
            /\ IF Len(U) <= k + 1
               THEN out = U
               ELSE out = Append(head, PyTail(string, rest))
            /\ k = 0 => out = <<string>>

\* one split was allowed and the remainder still holds a top-level delimiter
C7_Witness ==
    /\ gen = "done" /\ k = 1
    /\ Len(out) = 2
    /\ Len(aware_split(string, delimiter, -1).items) > 2

--------------------------------------------------------------------------
(* unquote applied to one string *)

UnquoteAlphabet == {"a", "\"", "\\"}

InitUnquote ==
    /\ SplitIdle
    /\ NoRpc
    /\ op = "none"
    /\ arg \in StringsUpTo(UnquoteAlphabet, MaxUnquoteLen)
    /\ ret = <<>>

CallUnquote ==
    /\ op = "none"
    /\ op' = "unquote"
    /\ ret' = unquote(arg)
    /\ UNCHANGED <<arg, splitVars, rpc>>

NextUnquote == CallUnquote

SpecUnquote == InitUnquote /\ [][NextUnquote]_vars

\* one left-to-right pass: (escape, quote) gives quote, (escape, escape)
\* gives escape, any other character is copied
RECURSIVE UnescapePass(_)
UnescapePass(s) ==
    IF s = <<>> THEN <<>>
    ELSE IF Len(s) >= 2 /\ s[1] = escape /\ s[2] \in {quote, escape}
    THEN <<s[2]>> \o UnescapePass(SubSeq(s, 3, Len(s)))
    ELSE <<s[1]>> \o UnescapePass(Tail(s))

\* C8: unquote returns the string itself unless it begins and ends with the
\* quote character, and otherwise the single-pass unescaping of what lies
\* between the first and the last character.
C8_UnquoteIsSinglePass ==
    op = "unquote" =>
        IF Len(arg) >= 1 /\ arg[1] = quote /\ arg[Len(arg)] = quote
        THEN ret = UnescapePass(SubSeq(arg, 2, Len(arg) - 1))
        ELSE ret = arg

\* a quoted string whose interior has an escaped escape right before an
\* escaped quote, where the two replacements could interfere
C8_Witness ==
    /\ op = "unquote"
    /\ Len(arg) >= 6
    /\ SubSeq(arg, 1, 5) = <<quote, escape, escape, escape, quote>>
    /\ arg[Len(arg)] = quote
    /\ ret = <<escape, quote>>

--------------------------------------------------------------------------
(* parse_dtype applied to one type descriptor *)

ArrayOf(d) == <<"a", "r", "r", "a", "y", "<">> \o d \o <<">">>

MapOf(kd, vd) == <<"m", "a", "p", "<">> \o kd \o <<",">> \o vd \o <<">">>

MapOfOne(d) == <<"m", "a", "p", "<">> \o d \o <<">">>

\* struct<n1:t1,n2:t2,...>, sep standing between a name and its type
RECURSIVE StructEntries(_, _)
StructEntries(entries, sep) ==
    IF entries = <<>> THEN <<>>
    ELSE entries[1].name \o <<sep>> \o entries[1].type
         \o (IF Len(entries) > 1 THEN <<",">> ELSE <<>>)
         \o StructEntries(Tail(entries), sep)

StructOf(entries, sep) == <<"s", "t", "r", "u", "c", "t", "<">> \o StructEntries(entries, sep) \o <<">">>

Entry(name, type) == [name |-> name, type |-> type]

BaseDescriptors ==
    { <<"i", "n", "t">>, <<"s", "t", "r", "i", "n", "g">>, <<"f", "r", "o", "b", "n", "i", "c", "a", "t", "e">>, <<" ", "B", "i", "g", "I", "n", "t", " ">>,
      <<"d", "e", "c", "i", "m", "a", "l">>, <<"d", "e", "c", "i", "m", "a", "l", "(", "5", ",", "2", ")">>, <<"d", "e", "c", "i", "m", "a", "l", "(", "5", ")">>, <<"d", "e", "c", "i", "m", "a", "l", "<", "5", ",", "2", ">">>,
      <<"a", "r", "r", "a", "y">>, <<>> }

Wrap(d) ==
    { ArrayOf(d),
      MapOf(<<"s", "t", "r", "i", "n", "g">>, d),
      MapOfOne(d),
      StructOf(<<Entry(<<"a">>, d), Entry(<<"b">>, <<"s", "t", "r", "i", "n", "g">>)>>, ":"),
      StructOf(<<Entry(<<"a">>, d), Entry(<<"b">>, <<"s", "t", "r", "i", "n", "g">>)>>, " "),
      StructOf(<<Entry(<<"m", "y", "C", "o", "l">>, d)>>, " ") }

RECURSIVE Descriptors(_)
Descriptors(depth) ==
    IF depth = 0 THEN BaseDescriptors
    ELSE LET D == Descriptors(depth - 1)
         IN  D \cup UNION {Wrap(d) : d \in D}

InitParse ==
    /\ SplitIdle
    /\ NoRpc
    /\ op = "none"
    /\ arg \in Descriptors(MaxDepth)
    /\ ret = <<>>

CallParseDtype ==
    /\ op = "none"
    /\ op' = "parse_dtype"
    /\ ret' = parse_dtype(arg)
    /\ UNCHANGED <<arg, splitVars, rpc>>

NextParse == CallParseDtype

SpecParse == InitParse /\ [][NextParse]_vars

\* C1: parse_dtype never raises, whatever the descriptor.
C1_NeverRaises == op = "parse_dtype" => ~IsRaise(ret)

\* the element, key and value descriptors the claims about composites range over
WellFormed ==
    { <<"i", "n", "t">>, <<"s", "t", "r", "i", "n", "g">>, ArrayOf(<<"i", "n", "t">>), MapOf(<<"s", "t", "r", "i", "n", "g">>, <<"i", "n", "t">>) }

\* C2: parsing struct<a:T,b:string> gives the struct of the fields
\* ("a", parse(T)) and ("b", string), in that order.
C2_StructFieldsInOrder ==
    \A t \in WellFormed :
        (op = "parse_dtype"
         /\ arg = StructOf(<<Entry(<<"a">>, t), Entry(<<"b">>, <<"s", "t", "r", "i", "n", "g">>)>>, ":"))
        => ret = struct(<<field(<<"a">>, parse_dtype(t)),
                          field(<<"b">>, Scalar("string"))>>)

\* C3: decimal(5,2) parses to decimal(5,2), decimal(5) to decimal(5,0) and
\* decimal to decimal(10,0).
C3_DecimalOptions ==
    op = "parse_dtype" =>
        /\ arg = <<"d", "e", "c", "i", "m", "a", "l", "(", "5", ",", "2", ")">> => ret = decimal128(PyInt(5), PyInt(2))
        /\ arg = <<"d", "e", "c", "i", "m", "a", "l", "(", "5", ")">> => ret = decimal128(PyInt(5), PyInt(0))
        /\ arg = <<"d", "e", "c", "i", "m", "a", "l">> => ret = decimal128(PyInt(10), PyInt(0))

\* C4: parsing map<K,V> gives map(parse(K), parse(V)) for well-formed K and
\* V, also when V itself contains commas.
C4_MapOfComposites ==
    \A kd \in {<<"i", "n", "t">>, <<"s", "t", "r", "i", "n", "g">>}, vd \in WellFormed :
        (op = "parse_dtype" /\ arg = MapOf(kd, vd))
        => ret = map_(parse_dtype(kd), parse_dtype(vd))

\* C11: parsing struct<myCol T> gives the one field named myCol, with the
\* letter case the descriptor has, of type parse(T).
C11_FieldNameKeepsCase ==
    \A t \in WellFormed :
        (op = "parse_dtype"
         /\ arg = StructOf(<<Entry(<<"m", "y", "C", "o", "l">>, t)>>, " "))
        => ret = struct(<<field(<<"m", "y", "C", "o", "l">>, parse_dtype(t))>>)

--------------------------------------------------------------------------
(* convert_schema applied to the columns of one table *)

SchemaColumns ==
    { FieldSchema(<<"x">>, <<"i", "n", "t">>, None),
      FieldSchema(<<"x">>, <<"s", "t", "r", "i", "n", "g">>, <<"c">>),
      FieldSchema(<<"y">>, StructOf(<<Entry(<<"a">>, <<"i", "n", "t">>)>>, ":"), <<>>),
      FieldSchema(<<"z">>, ArrayOf(<<"i", "n", "t">>), None) }

InitSchema ==
    /\ SplitIdle
    /\ NoRpc
    /\ op = "none"
    /\ arg \in [cols : StringsUpTo(SchemaColumns, MaxCols),
                part_cols : StringsUpTo(SchemaColumns, MaxCols)]
    /\ ret = <<>>

CallConvertSchema ==
    /\ op = "none"
    /\ op' = "convert_schema"
    /\ ret' = convert_schema(arg.cols, arg.part_cols)
    /\ UNCHANGED <<arg, splitVars, rpc>>

NextSchema == CallConvertSchema

SpecSchema == InitSchema /\ [][NextSchema]_vars

\* C9: the schema of N data columns and M partition columns has N+M fields,
\* the data columns' names first and the partition columns' names after them,
\* each list in its order, every field nullable.
C9_DataThenPartitionFields ==
    op = "convert_schema" =>
        LET n == Len(arg.cols)
            m == Len(arg.part_cols)
        IN  /\ ret.kind = "schema"
            /\ Len(ret.fields) = n + m
            /\ \A p \in 1..n : ret.fields[p].name = arg.cols[p].name
            /\ \A p \in 1..m : ret.fields[n + p].name = arg.part_cols[p].name
            /\ \A p \in 1..(n + m) : ret.fields[p].nullable

--------------------------------------------------------------------------
(* prepend_catalog_to_database applied to one (database, catalog) pair *)

NameAlphabet == {"a", "b", "@", "#", "!"}

Names == StringsUpTo(NameAlphabet, MaxNameLen) \cup {None, DEFAULT_CATALOG_NAME}

InitQualifier ==
    /\ SplitIdle
    /\ NoRpc
    /\ op = "none"
    /\ arg \in [database_name : Names, catalog_name : Names]
    /\ ret = <<>>

CallPrependCatalogToDatabase ==
    /\ op = "none"
    /\ op' = "prepend_catalog_to_database"
    /\ ret' = prepend_catalog_to_database(arg.database_name, arg.catalog_name)
    /\ UNCHANGED <<arg, splitVars, rpc>>

NextQualifier == CallPrependCatalogToDatabase

SpecQualifier == InitQualifier /\ [][NextQualifier]_vars

\* C10: the address is '@', then the catalog ("hive" when absent), then '#',
\* then nothing for an absent database, '!' for the empty database name and
\* the database name otherwise.
C10_QualifiedAddress ==
    op = "prepend_catalog_to_database" =>
        LET catalog == IF arg.catalog_name = None THEN <<"h", "i", "v", "e">> ELSE arg.catalog_name
            head == <<"@">> \o catalog \o <<"#">>
        IN  /\ arg.database_name = None => ret = head
            /\ arg.database_name = <<>> => ret = head \o <<"!">>
            /\ arg.database_name \notin {None, <<>>} => ret = head \o arg.database_name

\* the default catalog qualified with the empty database name
C10_Witness ==
    /\ op = "prepend_catalog_to_database"
    /\ arg.catalog_name = None
    /\ arg.database_name = <<>>
    /\ ret = <<"@", "h", "i", "v", "e", "#", "!">>

\* a name a caller may legitimately pass: absent, or free of '@' and '#'
Legitimate(name) == name = None \/ (~Contains(name, "@") /\ ~Contains(name, "#"))

LegitimateNames == {name \in Names : Legitimate(name)}

\* the catalog an argument stands for
EffectiveCatalog(catalog_name) ==
    IF catalog_name = None THEN <<"h", "i", "v", "e">> ELSE catalog_name

\* C14: for legitimate catalog and database arguments, no other legitimate
\* (catalog, database) pair gives the address this pair gave.
C14_Injective ==
    \A d2 \in LegitimateNames, c2 \in LegitimateNames :
        (/\ op = "prepend_catalog_to_database"
         /\ Legitimate(arg.database_name) /\ Legitimate(arg.catalog_name)
         /\ prepend_catalog_to_database(d2, c2) = ret)
        => (d2 = arg.database_name /\ c2 = arg.catalog_name)

\* C14, amended: for legitimate arguments whose database name is not the
\* sentinel "!" itself, a legitimate pair that gives the same address has the
\* same database argument and stands for the same catalog, the absent catalog
\* standing for "hive".
C14_InjectiveUpToDefaults ==
    \A d2 \in LegitimateNames \ {<<"!">>}, c2 \in LegitimateNames :
        (/\ op = "prepend_catalog_to_database"
         /\ Legitimate(arg.database_name) /\ Legitimate(arg.catalog_name)
         /\ arg.database_name # <<"!">>
         /\ prepend_catalog_to_database(d2, c2) = ret)
        => (d2 = arg.database_name
            /\ EffectiveCatalog(c2) = EffectiveCatalog(arg.catalog_name))

\* a legitimate catalog qualified with the empty database name, whose
\* address ends in the sentinel
C14_Witness ==
    /\ op = "prepend_catalog_to_database"
    /\ arg.catalog_name = <<"a">>
    /\ arg.database_name = <<>>
    /\ ret = <<"@", "a", "#", "!">>

--------------------------------------------------------------------------
(* One table or constraint operation of a ThriftHiveMetastore client *)

TableNames == {<<"t">>, <<"u">>}

DatabaseNames == {<<"d">>, <<>>}

CatalogNames == {None, <<"c">>}

\* a Table, a constraint or a schema: the catName attribute is what matters
Objects == {[catName |-> None], [catName |-> <<"c">>]}

ConstraintLists == {PyList(l) : l \in StringsUpTo(Objects, MaxConstraints)}

OptionalConstraintLists == ConstraintLists \cup {PyNone}

Contexts == {PyNone, EnvironmentContext(PyNone), EnvironmentContext(PyDict({}))}

InitClient ==
    /\ SplitIdle
    /\ CallIdle
    /\ NoRpc

\* the operation was called with the arguments a, made the calls and came
\* back with r; one operation is followed from its call to its return
Did(name, a, r, calls) ==
    /\ op' = name
    /\ arg' = a
    /\ ret' = r
    /\ rpc' = rpc \o calls
    /\ UNCHANGED splitVars

CreateTable ==
    /\ op = "none"
    /\ \E table \in Objects,
       pk \in OptionalConstraintLists, fk \in OptionalConstraintLists,
       uq \in OptionalConstraintLists, nn \in OptionalConstraintLists,
       dc \in OptionalConstraintLists, cc \in OptionalConstraintLists :
        Did("create_table",
            [table |-> table, primary_keys |-> pk, foreign_keys |-> fk,
             unique_constraints |-> uq, not_null_constraints |-> nn,
             default_constraints |-> dc, check_constraints |-> cc],
            Returned,
            <<create_table([table |-> table, primary_keys |-> pk, foreign_keys |-> fk,
                            unique_constraints |-> uq, not_null_constraints |-> nn,
                            default_constraints |-> dc, check_constraints |-> cc])>>)

AlterTable ==
    /\ op = "none"
    /\ \E table_name \in TableNames, new_table \in Objects,
       database_name \in DatabaseNames, catalog_name \in CatalogNames,
       cascade \in BOOLEAN, env_context \in Contexts,
       fresh \in {PyNone, PyDict({})} :
        Did("alter_table",
            [table_name |-> table_name, new_table |-> new_table,
             database_name |-> database_name, catalog_name |-> catalog_name,
             cascade |-> cascade, env_context |-> env_context],
            alter_table(table_name, new_table, database_name, catalog_name, cascade,
                        alter_table_context(cascade, env_context, fresh)).ret,
            alter_table(table_name, new_table, database_name, catalog_name, cascade,
                        alter_table_context(cascade, env_context, fresh)).rpc)

DropTable ==
    /\ op = "none"
    /\ \E table_name \in TableNames, database_name \in DatabaseNames,
       catalog_name \in CatalogNames, delete_data \in BOOLEAN,
       ignore_unknown_table \in BOOLEAN, if_purge \in BOOLEAN, found \in BOOLEAN :
        Did("drop_table",
            [table_name |-> table_name, database_name |-> database_name,
             catalog_name |-> catalog_name, delete_data |-> delete_data,
             ignore_unknown_table |-> ignore_unknown_table, if_purge |-> if_purge],
            drop_table(table_name, database_name, catalog_name, delete_data,
                       ignore_unknown_table, if_purge, found).ret,
            drop_table(table_name, database_name, catalog_name, delete_data,
                       ignore_unknown_table, if_purge, found).rpc)

TruncateTable ==
    /\ op = "none"
    /\ \E partition_names \in {<<>>, <<"p=1">>}, table_name \in TableNames,
       database_name \in DatabaseNames, catalog_name \in CatalogNames :
        Did("truncate_table",
            [partition_names |-> partition_names, table_name |-> table_name,
             database_name |-> database_name, catalog_name |-> catalog_name],
            Returned,
            <<truncate_table(partition_names, table_name, database_name, catalog_name)>>)

GetTable ==
    /\ op = "none"
    /\ \E table_name \in TableNames, database_name \in DatabaseNames,
       catalog_name \in CatalogNames :
        Did("get_table",
            [table_name |-> table_name, database_name |-> database_name,
             catalog_name |-> catalog_name],
            Returned,
            <<get_table(table_name, database_name, catalog_name)>>)

ListTables ==
    /\ op = "none"
    /\ \E database_name \in DatabaseNames, catalog_name \in CatalogNames,
       table_pattern \in {None, <<"t", "*">>},
       table_type \in {None, <<"MANAGED_TABLE">>} :
        Did("list_tables",
            [database_name |-> database_name, catalog_name |-> catalog_name,
             table_pattern |-> table_pattern, table_type |-> table_type],
            Returned,
            <<list_tables(database_name, catalog_name, table_pattern, table_type)>>)

GetFields ==
    /\ op = "none"
    /\ \E table_name \in TableNames, database_name \in DatabaseNames,
       catalog_name \in CatalogNames :
        Did("get_fields",
            [table_name |-> table_name, database_name |-> database_name,
             catalog_name |-> catalog_name],
            Returned,
            <<get_fields(table_name, database_name, catalog_name)>>)

GetSchema ==
    /\ op = "none"
    /\ \E table_name \in TableNames, database_name \in DatabaseNames,
       catalog_name \in CatalogNames :
        Did("get_schema",
            [table_name |-> table_name, database_name |-> database_name,
             catalog_name |-> catalog_name],
            Returned,
            <<get_schema(table_name, database_name, catalog_name)>>)

AddPrimaryKey ==
    /\ op = "none"
    /\ \E primary_keys \in ConstraintLists :
        Did("add_primary_key", [constraints |-> primary_keys], Returned,
            <<add_constraints("add_primary_key", "AddPrimaryKeyRequest", primary_keys)>>)

AddForeignKey ==
    /\ op = "none"
    /\ \E foreign_keys \in ConstraintLists :
        Did("add_foreign_key", [constraints |-> foreign_keys], Returned,
            <<add_constraints("add_foreign_key", "AddForeignKeyRequest", foreign_keys)>>)

AddUniqueConstraint ==
    /\ op = "none"
    /\ \E unique_constraints \in ConstraintLists :
        Did("add_unique_constraint", [constraints |-> unique_constraints], Returned,
            <<add_constraints("add_unique_constraint", "AddUniqueConstraintRequest",
                              unique_constraints)>>)

AddNotNullConstraint ==
    /\ op = "none"
    /\ \E not_null_constraints \in ConstraintLists :
        Did("add_not_null_constraint", [constraints |-> not_null_constraints], Returned,
            <<add_constraints("add_not_null_constraint", "AddNotNullConstraintRequest",
                              not_null_constraints)>>)

AddDefaultConstraint ==
    /\ op = "none"
    /\ \E default_constraints \in ConstraintLists :
        Did("add_default_constraint", [constraints |-> default_constraints], Returned,
            <<add_constraints("add_default_constraint", "AddDefaultConstraintRequest",
                              default_constraints)>>)

AddCheckConstraint ==
    /\ op = "none"
    /\ \E check_constraints \in ConstraintLists :
        Did("add_check_constraint", [constraints |-> check_constraints], Returned,
            <<add_constraints("add_check_constraint", "AddCheckConstraintRequest",
                              check_constraints)>>)

AddSchemaVersion ==
    /\ op = "none"
    /\ \E schema \in Objects :
        Did("add_schema_version", [schema_version |-> [schema |-> schema]], Returned,
            <<add_schema_version([schema |-> schema])>>)

NextClient ==
    \/ CreateTable \/ AlterTable \/ DropTable \/ TruncateTable \/ GetTable
    \/ ListTables \/ GetFields \/ GetSchema
    \/ AddPrimaryKey \/ AddForeignKey \/ AddUniqueConstraint
    \/ AddNotNullConstraint \/ AddDefaultConstraint \/ AddCheckConstraint
    \/ AddSchemaVersion

SpecClient == InitClient /\ [][NextClient]_vars

\* the calls that take a database name and then a table name
TableAddressed ==
    {"get_table", "alter_table_with_environment_context", "truncate_table",
     "drop_table_with_environment_context", "get_fields", "get_schema"}

\* the calls that take a database name and then a table pattern
PatternAddressed == {"get_tables", "get_tables_by_type"}

\* C12: every call a table-level operation makes has the qualified address
\* of its database and catalog arguments as its first argument, and the
\* calls about one table have the bare table name as their second.
C12_AddressInDatabasePosition ==
    \A n \in 1..Len(rpc) :
        /\ rpc[n].method \in TableAddressed \cup PatternAddressed
           => rpc[n].args[1]
              = prepend_catalog_to_database(arg.database_name, arg.catalog_name)
        /\ rpc[n].method \in TableAddressed => rpc[n].args[2] = arg.table_name

\* the constraint was sent with the default catalog if it had none, and with
\* its own otherwise
Filled(given, sent) ==
    sent.catName = IF given.catName = None THEN <<"h", "i", "v", "e">> ELSE given.catName

AllFilled(given, sent) ==
    given # PyNone =>
        /\ sent # PyNone
        /\ Len(sent.items) = Len(given.items)
        /\ \A n \in 1..Len(given.items) : Filled(given.items[n], sent.items[n])

AddMethods ==
    {"add_primary_key", "add_foreign_key", "add_unique_constraint",
     "add_not_null_constraint", "add_default_constraint", "add_check_constraint"}

\* C13: create_table on a table without catName sends the table and every
\* constraint that had no catName with the default catalog, the others with
\* their own; the add_* operations send their constraints the same way.
C13_CatalogFilledBeforeRpc ==
    \A n \in 1..Len(rpc) :
        /\ (rpc[n].method = "create_table_with_constraints" /\ arg.table.catName = None)
           => /\ rpc[n].args[1].catName = <<"h", "i", "v", "e">>
              /\ AllFilled(arg.primary_keys, rpc[n].args[2])
              /\ AllFilled(arg.foreign_keys, rpc[n].args[3])
              /\ AllFilled(arg.unique_constraints, rpc[n].args[4])
              /\ AllFilled(arg.not_null_constraints, rpc[n].args[5])
              /\ AllFilled(arg.default_constraints, rpc[n].args[6])
              /\ AllFilled(arg.check_constraints, rpc[n].args[7])
        /\ rpc[n].method \in AddMethods
           => AllFilled(arg.constraints, rpc[n].args[1].constraints)

====
